---- MODULE Spec2Model ----
(***************************************************************************)
(* The server actions of app/lib/actions.ts: six mutations of the invoices *)
(* and customers tables.  Every request runs one action; an action is      *)
(* split at its awaits, so that the statements of concurrent requests      *)
(* interleave at the store exactly as the awaited sql calls allow.         *)
(***************************************************************************)
EXTENDS Integers, Sequences, FiniteSets, TLC

VARIABLES
    invoices,    \* the invoices table: id -> [customer_id, amount, status, date]
    customers,   \* the customers table: id -> [name, email, image_url]
    nextInvoice, \* how many invoice ids the store has generated
    nextCustomer,\* how many customer ids the store has generated
    calls,       \* how many invocations have started
    procs,       \* the invocation each request is running, and where it stands
    last         \* the invocation that ended most recently, with what it returned

vars == <<invoices, customers, nextInvoice, nextCustomer, calls, procs, last>>

-----------------------------------------------------------------------------
(* Bounds of the model.                                                    *)

MaxCalls == 2
MaxNow == 2
TicksPerDay == 2

Procs == {"r1", "r2"}

\* The ids the store generates for inserted rows, in order.
InvoiceIds == <<"i1", "i2", "i3", "i4", "i5", "i6">>
CustomerIds == <<"c1", "c2", "c3", "c4", "c5", "c6">>

\* The ids a caller passes to the update and delete actions.
InvoiceTargets == {"i1", "i3"}
CustomerTargets == {"c1", "c2"}

-----------------------------------------------------------------------------
(* Form values: what formData.get(name) returns.                           *)

Null == [kind |-> "null"]
Str(s) == [kind |-> "string", value |-> s]

CustomerIdInputs == {Null, Str("c1"), Str("c2")}
AmountInputs == {Null, Str("abc"), Str("0"), Str("-1"), Str("2"), Str("50")}
StatusInputs == {Null, Str("draft"), Str("pending"), Str("paid")}
TextInputs == {Null, Str(""), Str("a")}

\* The forms submitted: a form that validates, every form that differs from it
\* in one field, the form with every field absent and the form with every
\* field empty.
Sampled(forms, base) ==
    {form \in forms :
        \/ Cardinality({f \in DOMAIN form : form[f] # base[f]}) <= 1
        \/ \A f \in DOMAIN form : form[f] = Null
        \/ \A f \in DOMAIN form : form[f] = Str("")}

InvoiceForms ==
    Sampled([customerId : CustomerIdInputs, amount : AmountInputs, status : StatusInputs],
            [customerId |-> Str("c1"), amount |-> Str("2"), status |-> Str("pending")])
CustomerForms ==
    Sampled([name : TextInputs, email : TextInputs, image_url : TextInputs],
            [name |-> Str("a"), email |-> Str("a"), image_url |-> Str("a")])

\* The clock readings of new Date().
Clock == 0..MaxNow

\* The store's failures: the sql call throws an Error with a message, or
\* something that is no Error.
SqlErrors == {[isError |-> TRUE, message |-> "timeout"], [isError |-> FALSE]}
SqlOk == [ok |-> TRUE]
SqlOutcomes == {SqlOk} \cup {[ok |-> FALSE, error |-> e] : e \in SqlErrors}

-----------------------------------------------------------------------------
(* The schemas (zod).  A schema yields the issues of each field, in order; *)
(* safeParse succeeds when no field has an issue, and flatten() keeps the  *)
(* fields that have one.                                                   *)

\* Number(v), as z.coerce.number() applies it: null and "" are 0, a decimal
\* literal is its value, any other string is NaN.
Numerals == ("0" :> 0) @@ ("-1" :> -1) @@ ("2" :> 2) @@ ("50" :> 50)
NaN == [nan |-> TRUE, n |-> 0]
Num(n) == [nan |-> FALSE, n |-> n]
CoerceNumber(v) ==
    IF v.kind = "null" THEN Num(0)
    ELSE IF v.value = "" THEN Num(0)
    ELSE IF v.value \in DOMAIN Numerals THEN Num(Numerals[v.value])
    ELSE NaN

\* customerId: z.string({invalid_type_error})
CustomerIdIssues(v) ==
    IF v.kind = "string" THEN <<>> ELSE <<"Please select a customer.">>

\* The amount schema with gte(0) for gt(0).
AmountIssues_Gte(v) ==
    LET c == CoerceNumber(v)
    IN  IF c.nan THEN <<"Expected number, received nan">>
        ELSE IF c.n >= 0 THEN <<>>
        ELSE <<"Please enter an amount greater than $0.">>

\* amount: z.coerce.number().gt(0, {message})
AmountIssues(v) ==
    LET c == CoerceNumber(v)
    IN  IF c.nan THEN <<"Expected number, received nan">>
        ELSE IF c.n > 0 THEN <<>>
        ELSE <<"Please enter an amount greater than $0.">>

\* The status schema as z.string() for z.enum.
StatusIssues_AnyString(v) ==
    IF v.kind # "string" THEN <<"Please select an invoice status.">> ELSE <<>>

\* status: z.enum(['pending', 'paid'], {invalid_type_error})
\* A string outside the enum is named in the issue: received '<value>'.
StatusIssues(v) ==
    IF v.kind # "string" THEN <<"Please select an invoice status.">>
    ELSE IF v.value \in {"pending", "paid"} THEN <<>>
    ELSE <<"Invalid enum value. Expected 'pending' | 'paid', received '" \o v.value \o "'">>

\* z.string().min(1): the empty string has an issue too.
TextIssues_NonEmpty(v) ==
    IF v.kind # "string" THEN <<"Expected string, received null">>
    ELSE IF v.value = "" THEN <<"String must contain at least 1 character(s)">>
    ELSE <<>>

\* name, email, image_url: z.string()
TextIssues(v) ==
    IF v.kind = "string" THEN <<>> ELSE <<"Expected string, received null">>

\* error.flatten().fieldErrors: the fields that have issues, with their messages.
FieldErrors(issues) ==
    [f \in {g \in DOMAIN issues : issues[g] # <<>>} |-> issues[f]]

NoData == [kind |-> "none"]

\* CreateInvoice.safeParse and UpdateInvoice.safeParse: FormSchema without id and date.
InvoiceSafeParse(form) ==
    LET issues == [customerId |-> CustomerIdIssues(form.customerId),
                   amount     |-> AmountIssues(form.amount),
                   status     |-> StatusIssues(form.status)]
        errors == FieldErrors(issues)
        success == DOMAIN errors = {}
    IN  [success |-> success,
         errors  |-> errors,
         data    |-> IF success
                     THEN [customerId |-> form.customerId.value,
                           amount     |-> CoerceNumber(form.amount).n,
                           status     |-> form.status.value]
                     ELSE NoData]

\* CreateCustomers.safeParse and UpdateCustomer.safeParse: FormcustumersSchema without id.
CustomerSafeParse(form) ==
    LET issues == [name      |-> TextIssues(form.name),
                   email     |-> TextIssues(form.email),
                   image_url |-> TextIssues(form.image_url)]
        errors == FieldErrors(issues)
        success == DOMAIN errors = {}
    IN  [success |-> success,
         errors  |-> errors,
         data    |-> IF success
                     THEN [name      |-> form.name.value,
                           email     |-> form.email.value,
                           image_url |-> form.image_url.value]
                     ELSE NoData]

-----------------------------------------------------------------------------
(* The store: the statements the actions issue, as the tables execute them.*)

\* new Date().toISOString().split('T')[0]: the day of the clock, its time dropped.
IsoDate(t) == t \div TicksPerDay

\* INSERT INTO invoices (customer_id, amount, status, date): the store generates the id.
InsertInvoice(inv, n, customerId, amountInCents, status, date) ==
    (InvoiceIds[n + 1] :> [customer_id |-> customerId, amount |-> amountInCents,
                           status |-> status, date |-> date]) @@ inv

\* The UPDATE without customer_id in its SET.
UpdateInvoiceRow_KeepsCustomer(inv, id, customerId, amountInCents, status) ==
    [i \in DOMAIN inv |->
        IF i = id
        THEN [inv[i] EXCEPT !.amount = amountInCents, !.status = status]
        ELSE inv[i]]

\* The UPDATE without its WHERE: every row is set.
UpdateInvoiceRow_NoWhere(inv, id, customerId, amountInCents, status) ==
    [i \in DOMAIN inv |->
        [inv[i] EXCEPT !.customer_id = customerId, !.amount = amountInCents,
                       !.status = status]]

\* UPDATE invoices SET customer_id, amount, status WHERE id
UpdateInvoiceRow(inv, id, customerId, amountInCents, status) ==
    [i \in DOMAIN inv |->
        IF i = id
        THEN [inv[i] EXCEPT !.customer_id = customerId, !.amount = amountInCents,
                            !.status = status]
        ELSE inv[i]]

\* DELETE FROM <table> WHERE id
DeleteRow(table, id) == [i \in DOMAIN table \ {id} |-> table[i]]

\* INSERT INTO customers (name, email, image_url): the store generates the id.
InsertCustomer(cus, n, name, email, image_url) ==
    (CustomerIds[n + 1] :> [name |-> name, email |-> email, image_url |-> image_url]) @@ cus

\* The UPDATE without email in its SET.
UpdateCustomerRow_KeepsEmail(cus, id, name, email, image_url) ==
    [c \in DOMAIN cus |->
        IF c = id
        THEN [cus[c] EXCEPT !.name = name, !.image_url = image_url]
        ELSE cus[c]]

\* UPDATE customers SET name, email, image_url WHERE id
UpdateCustomerRow(cus, id, name, email, image_url) ==
    [c \in DOMAIN cus |->
        IF c = id
        THEN [name |-> name, email |-> email, image_url |-> image_url]
        ELSE cus[c]]

\* The rows SELECT COUNT(*) ... WHERE customer_id = id AND status = 'pending' counts.
PendingRows(inv, id) ==
    {i \in DOMAIN inv : inv[i].customer_id = id /\ inv[i].status = "pending"}

\* The count query without AND status = 'pending'.
CountPending_AnyStatus(inv, id) ==
    <<[count |-> Cardinality({i \in DOMAIN inv : inv[i].customer_id = id})]>>

\* pendingInvoicesResult.rows: one row, holding the count.
CountPending(inv, id) == <<[count |-> Cardinality(PendingRows(inv, id))]>>

\* rows[1]?.count || 0: the row after the one the query returns.
PendingInvoices_WrongRow(rows) ==
    IF Len(rows) < 2 THEN 0
    ELSE IF rows[2].count = 0 THEN 0
    ELSE rows[2].count

\* pendingInvoicesResult.rows[0]?.count || 0
PendingInvoices(rows) ==
    IF rows = <<>> THEN 0
    ELSE IF rows[1].count = 0 THEN 0
    ELSE rows[1].count

\* if (pendingInvoices > 1) return
DeleteRefused_MoreThanOne(pendingInvoices) == pendingInvoices > 1

\* if (pendingInvoices > 0) return: the delete is refused.
DeleteRefused(pendingInvoices) == pendingInvoices > 0

-----------------------------------------------------------------------------
(* Messages are sequences of the pieces their template literals join.      *)

\* error instanceof Error ? error.message : ''
Cause(error) == IF error.isError THEN error.message ELSE ""

\* The message of a catch without its "Database Error" prefix.
DatabaseError_NoPrefix(what, error) == <<"Failed to " \o what, Cause(error)>>

\* The message of a catch: `Database Error: Failed to <what><cause>`.
DatabaseError(what, error) == <<"Database Error", ": Failed to " \o what, Cause(error)>>

Contains(message, piece) == \E k \in 1..Len(message) : message[k] = piece

InvoicesPath == "/dashboard/invoices"
CustomersPath == "/dashboard/customers"

\* The calls an invocation makes, as its trace records them.
Sql(stmt, outcome) == [call |-> "sql", stmt |-> stmt, ok |-> outcome.ok]
\* revalidatePath('/dashboard/invoices') in every action.
Revalidate_Invoices(path) == [call |-> "revalidatePath", path |-> "/dashboard/invoices"]
Revalidate(path) == [call |-> "revalidatePath", path |-> path]
\* redirect('/dashboard/invoices') in every action.
Redirect_Invoices(path) == [call |-> "redirect", path |-> "/dashboard/invoices"]
Redirect(path) == [call |-> "redirect", path |-> path]
Throw(error) == [call |-> "throw", error |-> error]

-----------------------------------------------------------------------------
(* Invocations.                                                            *)

NoForm == [kind |-> "none"]
NoResult == [kind |-> "none"]

\* A request that runs nothing.  An invocation holds the action and its
\* arguments, where it stands, its locals, the rows its count query matched,
\* the calls it made to the store, the cache and the router, and its result.
Idle == [op |-> "none", pc |-> "idle", id |-> "", form |-> NoForm, now |-> 0,
         locals |-> NoData, matched |-> {}, trace |-> <<>>, result |-> NoResult]

\* An invocation as it starts.
Started(op, id, form) ==
    [Idle EXCEPT !.op = op, !.id = id, !.form = form]

\* return value: the invocation ends with a result.
Returned(inv, trace, result) ==
    [inv EXCEPT !.pc = "returned", !.trace = trace, !.result = result]

\* redirect(path): the invocation ends there, with no result.
Redirected(inv, trace) ==
    [inv EXCEPT !.pc = "redirected", !.trace = trace]

\* throw error: the invocation ends there, the error leaving the action.
Threw(inv, trace, error) ==
    [inv EXCEPT !.pc = "threw", !.trace = trace \o <<Throw(error)>>]

\* The invocation of request p ends as `ended`.
Ends(p, ended) ==
    /\ last' = ended
    /\ procs' = [procs EXCEPT ![p] = Idle]

CanStart(p) == procs[p].pc = "idle" /\ calls < MaxCalls

Init ==
    /\ invoices = ("i1" :> [customer_id |-> "c2", amount |-> 100, status |-> "pending", date |-> 0])
               @@ ("i2" :> [customer_id |-> "c1", amount |-> 300, status |-> "paid", date |-> 0])
    /\ customers = ("c1" :> [name |-> "Ann", email |-> "ann@x", image_url |-> "/ann.png"])
                @@ ("c2" :> [name |-> "Bob", email |-> "bob@x", image_url |-> "/bob.png"])
    /\ nextInvoice = 2
    /\ nextCustomer = 2
    /\ calls = 0
    /\ procs = [p \in Procs |-> Idle]
    /\ last = Idle


-----------------------------------------------------------------------------
(* createInvoice                                                           *)

\* const amountInCents = amount
AmountInCents_Unscaled(amount) == amount

\* const amountInCents = amount * 100
AmountInCents(amount) == amount * 100

\* The result of a failed validation without its message.
Invalid_NoMessage(errors, message) == [errors |-> errors]

\* The result of a failed validation: { errors, message }.
Invalid(errors, message) == [errors |-> errors, message |-> <<message>>]

\* From the call to the first await: validate, prepare, issue the INSERT.
CreateInvoiceCall(p, form, now) ==
    /\ CanStart(p)
    /\ calls' = calls + 1
    /\ LET inv == Started("createInvoice", "", form)
           validatedFields == InvoiceSafeParse(form)
       IN  IF ~validatedFields.success
           THEN /\ last' = Returned(inv, <<>>,
                                    Invalid(validatedFields.errors,
                                            "Missing Fields. Failed to Create Invoice."))
                /\ UNCHANGED procs
           ELSE /\ procs' = [procs EXCEPT ![p] =
                      [inv EXCEPT !.pc = "insert", !.now = now,
                                  !.locals = [customerId    |-> validatedFields.data.customerId,
                                              amountInCents |-> AmountInCents(validatedFields.data.amount),
                                              status        |-> validatedFields.data.status,
                                              date          |-> IsoDate(now)]]]
                /\ UNCHANGED last
    /\ UNCHANGED <<invoices, customers, nextInvoice, nextCustomer>>

\* The INSERT ends: revalidate and redirect, or catch and return the message.
CreateInvoiceInsert(p, outcome) ==
    /\ procs[p].op = "createInvoice" /\ procs[p].pc = "insert"
    /\ LET inv == procs[p]
           trace == inv.trace \o <<Sql("INSERT invoices", outcome)>>
       IN  IF outcome.ok
           THEN /\ invoices' = InsertInvoice(invoices, nextInvoice, inv.locals.customerId,
                                             inv.locals.amountInCents, inv.locals.status,
                                             inv.locals.date)
                /\ nextInvoice' = nextInvoice + 1
                /\ Ends(p, Redirected(inv, trace \o <<Revalidate(InvoicesPath),
                                                      Redirect(InvoicesPath)>>))
           ELSE /\ UNCHANGED <<invoices, nextInvoice>>
                /\ Ends(p, Returned(inv, trace,
                                    [message |-> DatabaseError("Create Invoice. ", outcome.error)]))
    /\ UNCHANGED <<customers, nextCustomer, calls>>

-----------------------------------------------------------------------------
(* updateInvoice                                                           *)

UpdateInvoiceCall(p, id, form) ==
    /\ CanStart(p)
    /\ calls' = calls + 1
    /\ LET inv == Started("updateInvoice", id, form)
           validatedFields == InvoiceSafeParse(form)
       IN  IF ~validatedFields.success
           THEN /\ last' = Returned(inv, <<>>,
                                    Invalid(validatedFields.errors,
                                            "Missing Fields. Failed to Update Invoice."))
                /\ UNCHANGED procs
           ELSE /\ procs' = [procs EXCEPT ![p] =
                      [inv EXCEPT !.pc = "update",
                                  !.locals = [customerId    |-> validatedFields.data.customerId,
                                              amountInCents |-> AmountInCents(validatedFields.data.amount),
                                              status        |-> validatedFields.data.status]]]
                /\ UNCHANGED last
    /\ UNCHANGED <<invoices, customers, nextInvoice, nextCustomer>>

UpdateInvoiceUpdate(p, outcome) ==
    /\ procs[p].op = "updateInvoice" /\ procs[p].pc = "update"
    /\ LET inv == procs[p]
           trace == inv.trace \o <<Sql("UPDATE invoices", outcome)>>
       IN  IF outcome.ok
           THEN /\ invoices' = UpdateInvoiceRow(invoices, inv.id, inv.locals.customerId,
                                                inv.locals.amountInCents, inv.locals.status)
                /\ Ends(p, Redirected(inv, trace \o <<Revalidate(InvoicesPath),
                                                      Redirect(InvoicesPath)>>))
           ELSE /\ UNCHANGED invoices
                /\ Ends(p, Returned(inv, trace,
                                    [message |-> DatabaseError("Update Invoice. ", outcome.error)]))
    /\ UNCHANGED <<customers, nextInvoice, nextCustomer, calls>>

-----------------------------------------------------------------------------
(* deleteInvoice                                                           *)

DeleteInvoiceCall(p, id) ==
    /\ CanStart(p)
    /\ calls' = calls + 1
    /\ procs' = [procs EXCEPT ![p] = [Started("deleteInvoice", id, NoForm) EXCEPT !.pc = "delete"]]
    /\ UNCHANGED <<invoices, customers, nextInvoice, nextCustomer, last>>

DeleteInvoiceDelete(p, outcome) ==
    /\ procs[p].op = "deleteInvoice" /\ procs[p].pc = "delete"
    /\ LET inv == procs[p]
           trace == inv.trace \o <<Sql("DELETE invoices", outcome)>>
       IN  IF outcome.ok
           THEN /\ invoices' = DeleteRow(invoices, inv.id)
                /\ Ends(p, Returned(inv, trace \o <<Revalidate(InvoicesPath)>>,
                                    [message |-> <<"Deleted Invoice.">>]))
           ELSE /\ UNCHANGED invoices
                /\ Ends(p, Returned(inv, trace,
                                    [message |-> DatabaseError("Delete Invoice. ", outcome.error)]))
    /\ UNCHANGED <<customers, nextInvoice, nextCustomer, calls>>

-----------------------------------------------------------------------------
(* createCustomers                                                         *)

CreateCustomersCall(p, form) ==
    /\ CanStart(p)
    /\ calls' = calls + 1
    /\ LET inv == Started("createCustomers", "", form)
           validatedFields == CustomerSafeParse(form)
       IN  IF ~validatedFields.success
           THEN /\ last' = Returned(inv, <<>>,
                                    Invalid(validatedFields.errors,
                                            "Missing Fields. Failed to Create Customers."))
                /\ UNCHANGED procs
           ELSE /\ procs' = [procs EXCEPT ![p] =
                      [inv EXCEPT !.pc = "insert", !.locals = validatedFields.data]]
                /\ UNCHANGED last
    /\ UNCHANGED <<invoices, customers, nextInvoice, nextCustomer>>

CreateCustomersInsert(p, outcome) ==
    /\ procs[p].op = "createCustomers" /\ procs[p].pc = "insert"
    /\ LET inv == procs[p]
           trace == inv.trace \o <<Sql("INSERT customers", outcome)>>
       IN  IF outcome.ok
           THEN /\ customers' = InsertCustomer(customers, nextCustomer, inv.locals.name,
                                               inv.locals.email, inv.locals.image_url)
                /\ nextCustomer' = nextCustomer + 1
                /\ Ends(p, Redirected(inv, trace \o <<Revalidate(CustomersPath),
                                                      Redirect(CustomersPath)>>))
           ELSE /\ UNCHANGED <<customers, nextCustomer>>
                /\ Ends(p, Returned(inv, trace,
                                    [message |-> DatabaseError("Create Customers. ", outcome.error)]))
    /\ UNCHANGED <<invoices, nextInvoice, calls>>

-----------------------------------------------------------------------------
(* updateCustomers                                                         *)

UpdateCustomersCall(p, id, form) ==
    /\ CanStart(p)
    /\ calls' = calls + 1
    /\ LET inv == Started("updateCustomers", id, form)
           validatedFields == CustomerSafeParse(form)
       IN  IF ~validatedFields.success
           THEN /\ last' = Returned(inv, <<>>,
                                    Invalid(validatedFields.errors,
                                            "Missing Fields. Failed to Update customers."))
                /\ UNCHANGED procs
           ELSE /\ procs' = [procs EXCEPT ![p] =
                      [inv EXCEPT !.pc = "update", !.locals = validatedFields.data]]
                /\ UNCHANGED last
    /\ UNCHANGED <<invoices, customers, nextInvoice, nextCustomer>>

UpdateCustomersUpdate(p, outcome) ==
    /\ procs[p].op = "updateCustomers" /\ procs[p].pc = "update"
    /\ LET inv == procs[p]
           trace == inv.trace \o <<Sql("UPDATE customers", outcome)>>
       IN  IF outcome.ok
           THEN /\ customers' = UpdateCustomerRow(customers, inv.id, inv.locals.name,
                                                  inv.locals.email, inv.locals.image_url)
                /\ Ends(p, Redirected(inv, trace \o <<Revalidate(CustomersPath),
                                                      Redirect(CustomersPath)>>))
           ELSE /\ UNCHANGED customers
                /\ Ends(p, Returned(inv, trace,
                                    [message |-> DatabaseError("Update customers. ", outcome.error)]))
    /\ UNCHANGED <<invoices, nextInvoice, nextCustomer, calls>>

-----------------------------------------------------------------------------
(* deleteCustomers                                                         *)

\* The catch of deleteCustomers: one message, whatever was thrown.
DeleteCustomersError == <<"Database Error", ": Failed to delete customer.">>

\* From the call to the first await: the count query is issued.
DeleteCustomersCall(p, id) ==
    /\ CanStart(p)
    /\ calls' = calls + 1
    /\ procs' = [procs EXCEPT ![p] = [Started("deleteCustomers", id, NoForm) EXCEPT !.pc = "count"]]
    /\ UNCHANGED <<invoices, customers, nextInvoice, nextCustomer, last>>

\* deleteCustomers going on to its DELETE after a count query that failed.
DeleteCustomersCount_IgnoresFailure(p, outcome) ==
    /\ procs[p].op = "deleteCustomers" /\ procs[p].pc = "count"
    /\ LET inv == procs[p]
           trace == inv.trace \o <<Sql("SELECT COUNT invoices", outcome)>>
           pendingInvoices == IF outcome.ok THEN PendingInvoices(CountPending(invoices, inv.id)) ELSE 0
           counted == [inv EXCEPT !.locals = [pendingInvoices |-> pendingInvoices],
                                  !.matched = PendingRows(invoices, inv.id)]
       IN  IF DeleteRefused(pendingInvoices)
           THEN Ends(p, Returned(counted, trace, [message |-> <<"no se elimino">>]))
           ELSE /\ procs' = [procs EXCEPT ![p] = [counted EXCEPT !.pc = "delete", !.trace = trace]]
                /\ UNCHANGED last
    /\ UNCHANGED <<invoices, customers, nextInvoice, nextCustomer, calls>>

\* deleteCustomers without its catch around the count query: the failure of
\* the query leaves the action as a thrown error.
DeleteCustomersCount_Uncaught(p, outcome) ==
    /\ procs[p].op = "deleteCustomers" /\ procs[p].pc = "count"
    /\ LET inv == procs[p]
           trace == inv.trace \o <<Sql("SELECT COUNT invoices", outcome)>>
           pendingInvoices == PendingInvoices(CountPending(invoices, inv.id))
           counted == [inv EXCEPT !.locals = [pendingInvoices |-> pendingInvoices],
                                  !.matched = PendingRows(invoices, inv.id)]
       IN  IF ~outcome.ok
           THEN Ends(p, Threw(inv, trace, outcome.error))
           ELSE IF DeleteRefused(pendingInvoices)
           THEN Ends(p, Returned(counted, trace, [message |-> <<"no se elimino">>]))
           ELSE /\ procs' = [procs EXCEPT ![p] = [counted EXCEPT !.pc = "delete", !.trace = trace]]
                /\ UNCHANGED last
    /\ UNCHANGED <<invoices, customers, nextInvoice, nextCustomer, calls>>

\* The count query ends: refuse, or issue the DELETE; a failure is caught.
DeleteCustomersCount(p, outcome) ==
    /\ procs[p].op = "deleteCustomers" /\ procs[p].pc = "count"
    /\ LET inv == procs[p]
           trace == inv.trace \o <<Sql("SELECT COUNT invoices", outcome)>>
           pendingInvoices == PendingInvoices(CountPending(invoices, inv.id))
           counted == [inv EXCEPT !.locals = [pendingInvoices |-> pendingInvoices],
                                  !.matched = PendingRows(invoices, inv.id)]
       IN  IF ~outcome.ok
           THEN Ends(p, Returned(inv, trace, [message |-> DeleteCustomersError]))
           ELSE IF DeleteRefused(pendingInvoices)
           THEN Ends(p, Returned(counted, trace, [message |-> <<"no se elimino">>]))
           ELSE /\ procs' = [procs EXCEPT ![p] = [counted EXCEPT !.pc = "delete", !.trace = trace]]
                /\ UNCHANGED last
    /\ UNCHANGED <<invoices, customers, nextInvoice, nextCustomer, calls>>

\* The DELETE under a store that deletes the customer's invoices with it.
DeleteCustomersDelete_Cascade(p, outcome) ==
    /\ procs[p].op = "deleteCustomers" /\ procs[p].pc = "delete"
    /\ LET inv == procs[p]
           trace == inv.trace \o <<Sql("DELETE customers", outcome)>>
       IN  IF outcome.ok
           THEN /\ customers' = DeleteRow(customers, inv.id)
                /\ invoices' = [i \in {j \in DOMAIN invoices : invoices[j].customer_id # inv.id}
                                   |-> invoices[i]]
                /\ Ends(p, Returned(inv, trace \o <<Revalidate(CustomersPath)>>,
                                    [message |-> <<"Customer deleted successfully.">>]))
           ELSE /\ UNCHANGED <<customers, invoices>>
                /\ Ends(p, Returned(inv, trace, [message |-> DeleteCustomersError]))
    /\ UNCHANGED <<nextInvoice, nextCustomer, calls>>

\* The DELETE ends: revalidate and return the success message; a failure is caught.
DeleteCustomersDelete(p, outcome) ==
    /\ procs[p].op = "deleteCustomers" /\ procs[p].pc = "delete"
    /\ LET inv == procs[p]
           trace == inv.trace \o <<Sql("DELETE customers", outcome)>>
       IN  IF outcome.ok
           THEN /\ customers' = DeleteRow(customers, inv.id)
                /\ Ends(p, Returned(inv, trace \o <<Revalidate(CustomersPath)>>,
                                    [message |-> <<"Customer deleted successfully.">>]))
           ELSE /\ UNCHANGED customers
                /\ Ends(p, Returned(inv, trace, [message |-> DeleteCustomersError]))
    /\ UNCHANGED <<invoices, nextInvoice, nextCustomer, calls>>

-----------------------------------------------------------------------------
(* authenticate                                                            *)

\* What signIn('credentials', formData) does: it resolves, or it throws an
\* AuthError of some type, or it throws something that is no AuthError.
SignInErrors == {[isAuthError |-> TRUE, type |-> "CredentialsSignin"],
                 [isAuthError |-> TRUE, type |-> "CallbackRouteError"],
                 [isAuthError |-> FALSE, message |-> "fetch failed"]}
SignInOutcomes == {[ok |-> TRUE]} \cup {[ok |-> FALSE, error |-> e] : e \in SignInErrors}

SignIn(outcome) == [call |-> "signIn", outcome |-> outcome]


\* The switch with its two messages exchanged.
AuthMessage_Swapped(type) ==
    IF type = "CredentialsSignin" THEN "Something went wrong." ELSE "Invalid credentials."

\* switch (error.type): 'CredentialsSignin', and default.
AuthMessage(type) ==
    IF type = "CredentialsSignin" THEN "Invalid credentials." ELSE "Something went wrong."

\* From the call to the await: signIn is called.
AuthenticateCall(p) ==
    /\ CanStart(p)
    /\ calls' = calls + 1
    /\ procs' = [procs EXCEPT ![p] = [Started("authenticate", "", NoForm) EXCEPT !.pc = "signIn"]]
    /\ UNCHANGED <<invoices, customers, nextInvoice, nextCustomer, last>>

\* signIn ends: return nothing, or catch and return the message of an
\* AuthError, or throw again what is no AuthError.
AuthenticateSignIn(p, outcome) ==
    /\ procs[p].op = "authenticate" /\ procs[p].pc = "signIn"
    /\ LET inv == procs[p]
           trace == inv.trace \o <<SignIn(outcome)>>
       IN  IF outcome.ok
           THEN Ends(p, Returned(inv, trace, NoResult))
           ELSE IF outcome.error.isAuthError
           THEN Ends(p, Returned(inv, trace, [value |-> AuthMessage(outcome.error.type)]))
           ELSE Ends(p, Threw(inv, trace, outcome.error))
    /\ UNCHANGED <<invoices, customers, nextInvoice, nextCustomer, calls>>

-----------------------------------------------------------------------------
(* The system: requests start actions, the store answers their statements. *)

Call(p) ==
    \/ \E form \in InvoiceForms, now \in Clock : CreateInvoiceCall(p, form, now)
    \/ \E id \in InvoiceTargets, form \in InvoiceForms : UpdateInvoiceCall(p, id, form)
    \/ \E id \in InvoiceTargets : DeleteInvoiceCall(p, id)
    \/ \E form \in CustomerForms : CreateCustomersCall(p, form)
    \/ \E id \in CustomerTargets, form \in CustomerForms : UpdateCustomersCall(p, id, form)
    \/ \E id \in CustomerTargets : DeleteCustomersCall(p, id)
    \/ AuthenticateCall(p)

Answer(p) ==
    \/ \E outcome \in SqlOutcomes :
        \/ CreateInvoiceInsert(p, outcome)
        \/ UpdateInvoiceUpdate(p, outcome)
        \/ DeleteInvoiceDelete(p, outcome)
        \/ CreateCustomersInsert(p, outcome)
        \/ UpdateCustomersUpdate(p, outcome)
        \/ DeleteCustomersCount(p, outcome)
        \/ DeleteCustomersDelete(p, outcome)
    \/ \E outcome \in SignInOutcomes : AuthenticateSignIn(p, outcome)

Next ==
    \/ \E p \in Procs : Call(p)
    \/ \E p \in Procs : Answer(p)

Spec == Init /\ [][Next]_vars

\* One request at a time: an action starts only when no other is running.
Quiet == \A p \in Procs : procs[p].pc = "idle"

NextSeq ==
    \/ \E p \in Procs : Quiet /\ Call(p)
    \/ \E p \in Procs : Answer(p)

SpecSeq == Init /\ [][NextSeq]_vars

-----------------------------------------------------------------------------
(* What the properties below speak of.                                     *)

\* This step ends an invocation; last' is that invocation.
Ending ==
    \/ calls' = calls + 1 /\ procs' = procs
    \/ \E p \in Procs : procs[p].pc # "idle" /\ procs'[p].pc = "idle"

\* The invocations of a state: those running, and the one that ended last.
Invocations == {procs[p] : p \in Procs} \cup {last}

SqlCalls(trace) == {k \in 1..Len(trace) : trace[k].call = "sql"}
FailedSql(trace) == {k \in SqlCalls(trace) : ~trace[k].ok}
\* The statements that change a table and succeeded.
Writes(trace) ==
    {k \in SqlCalls(trace) : trace[k].ok /\ trace[k].stmt # "SELECT COUNT invoices"}
Revalidated(trace) ==
    {trace[k].path : k \in {j \in 1..Len(trace) : trace[j].call = "revalidatePath"}}

HasPending(inv, id) ==
    \E i \in DOMAIN inv : inv[i].customer_id = id /\ inv[i].status = "pending"

DeletedMessage == <<"Customer deleted successfully.">>
RefusedMessage == <<"no se elimino">>

-----------------------------------------------------------------------------
\* C1: with no store failure and no overlapping invocation, deleteCustomers(id)
\* leaves the customers table as it is and returns "no se elimino" when an
\* invoice of that customer is pending, and otherwise removes the row of that
\* id and returns the success message.
C1_GuardedDelete ==
    [][(Ending /\ last'.op = "deleteCustomers" /\ FailedSql(last'.trace) = {})
        => IF HasPending(invoices, last'.id)
           THEN /\ customers' = customers
                /\ last'.result = [message |-> RefusedMessage]
           ELSE /\ last'.id \notin DOMAIN customers'
                /\ \A c \in DOMAIN customers \ {last'.id} :
                       c \in DOMAIN customers' /\ customers'[c] = customers[c]
                /\ last'.result = [message |-> DeletedMessage]]_vars

\* A customer with a pending invoice was refused and is still there.
C1_Witness ==
    /\ last.op = "deleteCustomers"
    /\ last.result = [message |-> RefusedMessage]
    /\ last.id \in DOMAIN customers
    /\ HasPending(invoices, last.id)

\* C2: the count and the DELETE of deleteCustomers are two statements with
\* nothing around them: a pending invoice of the customer that is in the store
\* when deleteCustomers returns success was written after the count was read.
C2_PendingOnlyByRace ==
    [][(Ending /\ last'.op = "deleteCustomers"
               /\ last'.result = [message |-> DeletedMessage])
        => \A i \in DOMAIN invoices' :
               (invoices'[i].customer_id = last'.id /\ invoices'[i].status = "pending")
                   => i \notin last'.matched]_vars

\* The race: deleteCustomers(c) ended last, with success and the row of c gone,
\* and createInvoice has inserted a pending invoice of c in between.
C2_Witness ==
    /\ Quiet
    /\ last.op = "deleteCustomers"
    /\ last.result = [message |-> DeletedMessage]
    /\ Len(last.trace) = 3 /\ last.trace[2] = Sql("DELETE customers", SqlOk)
    /\ last.id \notin DOMAIN customers
    /\ \E i \in DOMAIN invoices \ {"i1", "i2"} :
           invoices[i].customer_id = last.id /\ invoices[i].status = "pending"

-----------------------------------------------------------------------------
\* The amounts submitted that are numbers less than or equal to 0.
NonPositiveAmounts == {Str("0"), Str("-1")}
InvoiceActions == {"createInvoice", "updateInvoice"}
CustomerActions == {"createCustomers", "updateCustomers"}

\* C3: createInvoice and updateInvoice, given an amount less than or equal to
\* 0, return a field error on amount and write nothing: the tables are as they
\* were and the invocation has issued no statement.
C3_NonPositiveAmountRejected ==
    [][(Ending /\ last'.op \in InvoiceActions /\ last'.form.amount \in NonPositiveAmounts)
        => /\ "errors" \in DOMAIN last'.result
           /\ "amount" \in DOMAIN last'.result.errors
           /\ last'.result.errors.amount # <<>>
           /\ SqlCalls(last'.trace) = {}
           /\ invoices' = invoices /\ customers' = customers]_vars

\* createInvoice has returned the field error of an amount of 0 or less.
C3_Witness ==
    /\ last.op = "createInvoice"
    /\ last.form.amount \in NonPositiveAmounts
    /\ last.pc = "returned"
    /\ last.result.errors.amount = <<"Please enter an amount greater than $0.">>
    /\ last.trace = <<>>

\* C4: createInvoice and updateInvoice, given a status that is neither
\* 'pending' nor 'paid', an absent one included, return a field error on
\* status and write nothing.
C4_BadStatusRejected ==
    [][(Ending /\ last'.op \in InvoiceActions
               /\ last'.form.status \notin {Str("pending"), Str("paid")})
        => /\ "errors" \in DOMAIN last'.result
           /\ "status" \in DOMAIN last'.result.errors
           /\ last'.result.errors.status # <<>>
           /\ SqlCalls(last'.trace) = {}
           /\ invoices' = invoices /\ customers' = customers]_vars

\* updateInvoice has returned the field error of an absent status.
C4_Witness ==
    /\ last.op = "updateInvoice"
    /\ last.form.status = Null
    /\ last.pc = "returned"
    /\ "status" \in DOMAIN last.result.errors
    /\ last.trace = <<>>

\* The amounts submitted that are numbers greater than 0.
PositiveAmounts == {Str("2"), Str("50")}

\* C5: createInvoice, given a customerId, an amount X > 0 and a status, and a
\* store that does not fail, adds one row, with the customer_id and status
\* submitted, the amount X * 100 and the day of the clock; every other row and
\* the customers table are as they were.
C5_CreatePersists ==
    [][(Ending /\ last'.op = "createInvoice"
               /\ last'.form.customerId.kind = "string"
               /\ last'.form.amount \in PositiveAmounts
               /\ last'.form.status \in {Str("pending"), Str("paid")}
               /\ FailedSql(last'.trace) = {})
        => /\ \E new \in DOMAIN invoices' \ DOMAIN invoices :
                /\ DOMAIN invoices' = DOMAIN invoices \cup {new}
                /\ invoices'[new] = [customer_id |-> last'.form.customerId.value,
                                     amount      |-> Numerals[last'.form.amount.value] * 100,
                                     status      |-> last'.form.status.value,
                                     date        |-> last'.now \div TicksPerDay]
           /\ \A i \in DOMAIN invoices : invoices'[i] = invoices[i]
           /\ customers' = customers]_vars

\* createInvoice has stored { customerId: 'c1', amount: '50', status: 'pending' }
\* as an invoice of 5000, dated the second day, and redirected.
C5_Witness ==
    /\ Quiet
    /\ last.op = "createInvoice" /\ last.pc = "redirected"
    /\ last.form = [customerId |-> Str("c1"), amount |-> Str("50"), status |-> Str("pending")]
    /\ last.now = MaxNow
    /\ \E i \in DOMAIN invoices \ {"i1", "i2"} :
           invoices[i] = [customer_id |-> "c1", amount |-> 5000, status |-> "pending",
                          date |-> MaxNow \div TicksPerDay]

\* C6: when a statement of one of the six actions fails, the invocation
\* returns a message that contains "Database Error", and the store is as it
\* was: the failed statement changes nothing and the invocation has made no
\* other write.
C6_StoreFailureReported ==
    [][(Ending /\ FailedSql(last'.trace) # {})
        => /\ last'.pc = "returned"
           /\ Contains(last'.result.message, "Database Error")
           /\ Writes(last'.trace) = {}
           /\ invoices' = invoices /\ customers' = customers]_vars

\* The DELETE of deleteCustomers has failed and the customer is still there.
C6_Witness ==
    /\ Quiet
    /\ last.op = "deleteCustomers"
    /\ Len(last.trace) = 2 /\ ~last.trace[2].ok
    /\ Contains(last.result.message, "Database Error")
    /\ last.id \in DOMAIN customers

-----------------------------------------------------------------------------
\* This step ends an updateInvoice of a row that exists, submitted with status
\* 'paid', whose UPDATE succeeded.
PaidUpdateEnds ==
    /\ Ending
    /\ last'.op = "updateInvoice" /\ last'.pc = "redirected"
    /\ last'.form.status = Str("paid")
    /\ last'.id \in DOMAIN invoices

\* C7, as claimed: after updateInvoice with status 'paid' the invoice reads
\* 'paid' and has the customer it had before the update.
C7_CustomerUnchanged ==
    [][PaidUpdateEnds
        => /\ invoices'[last'.id].status = "paid"
           /\ invoices'[last'.id].customer_id = invoices[last'.id].customer_id]_vars

\* C7, amended: after updateInvoice with status 'paid' the invoice reads 'paid'
\* and has the customer the form submitted, which is the customer it had
\* before exactly when the form submitted that one.
C7_PaidAndSubmittedCustomer ==
    [][PaidUpdateEnds
        => /\ invoices'[last'.id].status = "paid"
           /\ invoices'[last'.id].customer_id = last'.form.customerId.value
           /\ (invoices'[last'.id].customer_id = invoices[last'.id].customer_id)
                  <=> (last'.form.customerId.value = invoices[last'.id].customer_id)]_vars

\* updateInvoice has set a pending invoice to 'paid'; it reads 'paid', with the
\* customer submitted.
C7_Witness ==
    /\ Quiet
    /\ last.op = "updateInvoice" /\ last.pc = "redirected"
    /\ last.form.status = Str("paid")
    /\ last.id = "i1" /\ calls = 1
    /\ invoices["i1"].status = "paid"
    /\ invoices["i1"].customer_id = last.form.customerId.value

\* The validation of the form an invocation was given.
Validation(inv) ==
    IF inv.op \in InvoiceActions THEN InvoiceSafeParse(inv.form) ELSE CustomerSafeParse(inv.form)

\* C8: in createInvoice, updateInvoice, createCustomers and updateCustomers, an
\* invocation whose validation fails returns both the field errors and a
\* message and has made no call: no statement, no invalidation, no redirect;
\* no invocation with such a form is ever waiting for the store.
C8_InvalidNeverWrites ==
    \A inv \in Invocations :
        (inv.op \in InvoiceActions \cup CustomerActions /\ ~Validation(inv).success)
            => /\ inv.pc = "returned"
               /\ DOMAIN inv.result = {"errors", "message"}
               /\ DOMAIN inv.result.errors # {}
               /\ inv.result.message # <<>>
               /\ inv.trace = <<>>

\* updateCustomers has returned the errors of a form without email.
C8_Witness ==
    /\ last.op = "updateCustomers"
    /\ last.form.email = Null
    /\ last.pc = "returned"
    /\ last.result = [errors  |-> [email |-> <<"Expected string, received null">>],
                      message |-> <<"Missing Fields. Failed to Update customers.">>]
    /\ last.trace = <<>>

\* C9: deleteCustomers issues its DELETE only after its count query has
\* returned and no pending invoice was counted; when one was counted, or the
\* count query failed, it issues no DELETE.
C9_DeleteAfterZeroCount ==
    \A inv \in Invocations :
        inv.op = "deleteCustomers"
            => LET deletes == {k \in SqlCalls(inv.trace) : inv.trace[k].stmt = "DELETE customers"}
                   issued == inv.pc = "delete" \/ deletes # {}
               IN  /\ issued => /\ Len(inv.trace) >= 1
                                /\ inv.trace[1] = Sql("SELECT COUNT invoices", SqlOk)
                                /\ inv.matched = {}
                                /\ deletes \subseteq {2}
                   /\ (inv.matched # {} \/ 1 \in FailedSql(inv.trace)) => ~issued

\* Both cases: a deleteCustomers is refused, having counted a pending invoice
\* and issued no DELETE, while another has counted none and issued its DELETE.
C9_Witness ==
    /\ last.op = "deleteCustomers"
    /\ last.matched # {}
    /\ last.trace = <<Sql("SELECT COUNT invoices", SqlOk)>>
    /\ \E p \in Procs :
           /\ procs[p].op = "deleteCustomers" /\ procs[p].pc = "delete"
           /\ procs[p].matched = {}

\* The view an action invalidates.
ViewOf(op) == IF op \in {"createInvoice", "updateInvoice", "deleteInvoice"}
              THEN InvoicesPath ELSE CustomersPath

\* C10: an invocation invalidates a view exactly when its write succeeded, and
\* then only the view of its entity; one still running, and one that ended in a
\* validation failure, a store failure or a refusal, has invalidated nothing.
C10_InvalidateIffWritten ==
    \A inv \in Invocations :
        /\ inv.pc \in {"returned", "redirected"}
               => Revalidated(inv.trace) =
                      IF Writes(inv.trace) # {} THEN {ViewOf(inv.op)} ELSE {}
        /\ inv.pc \notin {"returned", "redirected"} => Revalidated(inv.trace) = {}
        /\ ("errors" \in DOMAIN inv.result \/ FailedSql(inv.trace) # {}
                \/ inv.result = [message |-> RefusedMessage])
               => Revalidated(inv.trace) = {}

\* deleteCustomers has deleted a customer and invalidated the customers view.
C10_Witness ==
    /\ last.op = "deleteCustomers"
    /\ last.result = [message |-> DeletedMessage]
    /\ Writes(last.trace) = {2}
    /\ Revalidated(last.trace) = {CustomersPath}

-----------------------------------------------------------------------------
Redirects(trace) == {k \in 1..Len(trace) : trace[k].call = "redirect"}
DeleteActions == {"deleteInvoice", "deleteCustomers"}
Ended(inv) == inv.pc \in {"returned", "redirected", "threw"}

\* C11: only createInvoice, updateInvoice, createCustomers and updateCustomers
\* redirect, after their one write succeeded and their view was invalidated, to
\* the listing of their entity; the redirect is the last thing the invocation
\* does and it returns no result.  deleteInvoice and deleteCustomers never
\* redirect and end by returning a message.
C11_RedirectLastAfterWrite ==
    \A inv \in Invocations :
        /\ (Redirects(inv.trace) # {} \/ inv.pc = "redirected")
               => /\ inv.op \in InvoiceActions \cup CustomerActions
                  /\ Len(inv.trace) = 3
                  /\ inv.trace[1].call = "sql" /\ Writes(inv.trace) = {1}
                  /\ inv.trace[2] = [call |-> "revalidatePath", path |-> ViewOf(inv.op)]
                  /\ inv.trace[3] = [call |-> "redirect", path |-> ViewOf(inv.op)]
                  /\ inv.pc = "redirected"
                  /\ inv.result = NoResult
        /\ (inv.op \in DeleteActions /\ Ended(inv))
               => /\ inv.pc = "returned"
                  /\ DOMAIN inv.result = {"message"}
                  /\ inv.result.message # <<>>

\* createCustomers has inserted a customer, invalidated the customers view and
\* redirected to the customers listing.
C11_Witness ==
    /\ last.op = "createCustomers" /\ last.pc = "redirected"
    /\ last.trace = <<[call |-> "sql", stmt |-> "INSERT customers", ok |-> TRUE],
                      [call |-> "revalidatePath", path |-> "/dashboard/customers"],
                      [call |-> "redirect", path |-> "/dashboard/customers"]>>
    /\ "c3" \in DOMAIN customers

\* C12: every invoice row in the store has an amount greater than 0 and the
\* status 'pending' or 'paid', whatever actions ran and however they interleaved.
C12_InvoiceRowsValid ==
    \A i \in DOMAIN invoices :
        /\ invoices[i].amount > 0
        /\ invoices[i].status \in {"pending", "paid"}

\* Two actions have written invoices: one was inserted, one was updated to
\* the amount 5000.
C12_Witness ==
    /\ Quiet /\ calls = 2
    /\ "i3" \in DOMAIN invoices
    /\ invoices["i1"].amount = 5000

-----------------------------------------------------------------------------
\* The row an updateInvoice writes, and the row an updateCustomers writes,
\* read from the form submitted.
InvoiceFieldsOf(form) ==
    [customer_id |-> form.customerId.value,
     amount      |-> Numerals[form.amount.value] * 100,
     status      |-> form.status.value]
CustomerRowOf(form) ==
    [name |-> form.name.value, email |-> form.email.value, image_url |-> form.image_url.value]

\* C13: updates of one id are last-writer-wins.  The row has every field as
\* the update that was applied last submitted it, never fields of two updates;
\* and an update that waits for the store can succeed whatever the other
\* invocations have done.
C13_LastWriterWins ==
    /\ (last.op = "updateInvoice" /\ last.pc = "redirected" /\ last.id \in DOMAIN invoices)
           => [f \in {"customer_id", "amount", "status"} |-> invoices[last.id][f]]
                  = InvoiceFieldsOf(last.form)
    /\ (last.op = "updateCustomers" /\ last.pc = "redirected" /\ last.id \in DOMAIN customers)
           => customers[last.id] = CustomerRowOf(last.form)
    /\ \A p \in Procs :
           /\ (procs[p].op = "updateInvoice" /\ procs[p].pc = "update")
                  => ENABLED UpdateInvoiceUpdate(p, SqlOk)
           /\ (procs[p].op = "updateCustomers" /\ procs[p].pc = "update")
                  => ENABLED UpdateCustomersUpdate(p, SqlOk)

\* Two updateInvoice of the same invoice with different forms: one has written
\* the row, the other has issued its UPDATE and waits for the store.
C13_Witness ==
    /\ last.op = "updateInvoice" /\ last.pc = "redirected" /\ last.id = "i1"
    /\ \E p \in Procs :
           /\ procs[p].op = "updateInvoice" /\ procs[p].pc = "update"
           /\ procs[p].id = "i1"
           /\ procs[p].form.customerId # last.form.customerId
    /\ invoices["i1"].customer_id = last.form.customerId.value

-----------------------------------------------------------------------------
StoreActions == InvoiceActions \cup CustomerActions \cup DeleteActions

\* The error an invocation threw to its caller.
Thrown(trace) == {trace[k].error : k \in {j \in 1..Len(trace) : trace[j].call = "throw"}}

\* C14: a store failure never leaves a mutation as a thrown error: an
\* invocation of the six mutations with a failed store call has returned a
\* result with a message.  Only authenticate throws, and what it throws is the
\* failure of signIn that is no AuthError.
C14_StoreFailuresReturned ==
    \A inv \in Invocations :
        /\ (inv.op \in StoreActions /\ FailedSql(inv.trace) # {})
               => /\ inv.pc = "returned"
                  /\ "message" \in DOMAIN inv.result
                  /\ inv.result.message # <<>>
                  /\ Thrown(inv.trace) = {}
        /\ (inv.pc = "threw" \/ Thrown(inv.trace) # {})
               => /\ inv.op = "authenticate"
                  /\ inv.pc = "threw"
                  /\ Len(inv.trace) = 2
                  /\ inv.trace[1].call = "signIn"
                  /\ ~inv.trace[1].outcome.ok
                  /\ ~inv.trace[1].outcome.error.isAuthError
                  /\ Thrown(inv.trace) = {inv.trace[1].outcome.error}

\* The count query of deleteCustomers failed and the action returned its message.
C14_Witness ==
    /\ last.op = "deleteCustomers" /\ last.pc = "returned"
    /\ last.trace = <<[call |-> "sql", stmt |-> "SELECT COUNT invoices", ok |-> FALSE]>>
    /\ last.result = [message |-> DeleteCustomersError]

\* The outcome of the signIn call of an authenticate invocation.
SignedIn(inv) == inv.trace[1].outcome

\* C15: authenticate returns nothing when signIn succeeds, "Invalid
\* credentials." for the AuthError of type CredentialsSignin, "Something went
\* wrong." for any other AuthError, and throws any other failure as it caught
\* it, returning no string.
C15_AuthenticateResults ==
    \A inv \in Invocations :
        (inv.op = "authenticate" /\ Ended(inv))
            => /\ inv.trace # <<>> /\ inv.trace[1].call = "signIn"
               /\ IF SignedIn(inv).ok
                  THEN inv.pc = "returned" /\ inv.result = NoResult
                  ELSE IF ~SignedIn(inv).error.isAuthError
                  THEN /\ inv.pc = "threw" /\ inv.result = NoResult
                       /\ Thrown(inv.trace) = {SignedIn(inv).error}
                  ELSE IF SignedIn(inv).error.type = "CredentialsSignin"
                  THEN inv.pc = "returned" /\ inv.result = [value |-> "Invalid credentials."]
                  ELSE inv.pc = "returned" /\ inv.result = [value |-> "Something went wrong."]

\* signIn failed with an AuthError of another type than CredentialsSignin.
C15_Witness ==
    /\ last.op = "authenticate" /\ last.pc = "returned"
    /\ last.trace = <<SignIn([ok |-> FALSE,
                              error |-> [isAuthError |-> TRUE, type |-> "CallbackRouteError"]])>>
    /\ last.result = [value |-> "Something went wrong."]

-----------------------------------------------------------------------------
\* The fields of a form that were not submitted.
Absent(form) == {f \in DOMAIN form : form[f] = Null}

\* C16: createCustomers and updateCustomers with name, email or image_url
\* absent return an error on each absent field and on no other, and issue no
\* statement.  With the three submitted as strings, the empty string included,
\* they pass validation and issue their statement with the values as
\* submitted, and the row the store then holds has these values.
C16_CustomerFields ==
    /\ \A inv \in Invocations :
           inv.op \in CustomerActions =>
               IF Absent(inv.form) # {}
               THEN /\ inv.pc = "returned"
                    /\ "errors" \in DOMAIN inv.result
                    /\ DOMAIN inv.result.errors = Absent(inv.form)
                    /\ \A f \in Absent(inv.form) : inv.result.errors[f] # <<>>
                    /\ inv.trace = <<>>
               ELSE /\ "errors" \notin DOMAIN inv.result
                    /\ \/ inv.pc \in {"insert", "update"} /\ inv.locals = CustomerRowOf(inv.form)
                       \/ Ended(inv) /\ SqlCalls(inv.trace) = {1}
    /\ (last.op = "createCustomers" /\ last.pc = "redirected")
           => /\ CustomerIds[nextCustomer] \in DOMAIN customers
              /\ customers[CustomerIds[nextCustomer]] = CustomerRowOf(last.form)
    /\ (last.op = "updateCustomers" /\ last.pc = "redirected" /\ last.id \in DOMAIN customers)
           => customers[last.id] = CustomerRowOf(last.form)

\* A customer created from three empty strings.
C16_Witness ==
    /\ last.op = "createCustomers" /\ last.pc = "redirected"
    /\ last.form = [name |-> Str(""), email |-> Str(""), image_url |-> Str("")]
    /\ "c3" \in DOMAIN customers
    /\ customers["c3"] = [name |-> "", email |-> "", image_url |-> ""]

-----------------------------------------------------------------------------
\* The statements an invocation has had an answer for, in order, and the
\* number of statements it has issued and waits for.
Statements(trace) == [k \in 1..Cardinality(SqlCalls(trace)) |->
                         trace[CHOOSE j \in SqlCalls(trace) :
                                   Cardinality({i \in SqlCalls(trace) : i <= j}) = k].stmt]
Awaited(inv) == IF inv.pc \in {"insert", "update", "delete", "count"} THEN 1 ELSE 0

\* C17: an invocation has at most one statement at the store at a time and
\* repeats none.  createInvoice, updateInvoice, deleteInvoice, createCustomers
\* and updateCustomers issue at most one statement; deleteCustomers issues its
\* count query, then at most its DELETE, once the count has been answered; a
\* failed statement is the last call of its invocation, which has returned.
C17_StoreCallsSequential ==
    \A inv \in Invocations :
        /\ inv.op \in InvoiceActions \cup CustomerActions \cup {"deleteInvoice"}
               => Len(Statements(inv.trace)) + Awaited(inv) <= 1
        /\ inv.op = "deleteCustomers"
               => /\ inv.pc = "count" => Statements(inv.trace) = <<>>
                  /\ inv.pc = "delete" => Statements(inv.trace) = <<"SELECT COUNT invoices">>
                  /\ Ended(inv) => Statements(inv.trace) \in
                                       {<<"SELECT COUNT invoices">>,
                                        <<"SELECT COUNT invoices", "DELETE customers">>}
        /\ FailedSql(inv.trace) # {}
               => /\ FailedSql(inv.trace) = {Len(inv.trace)}
                  /\ inv.pc = "returned"
                  /\ Awaited(inv) = 0

\* deleteCustomers whose count query was answered and whose DELETE failed.
C17_Witness ==
    /\ last.op = "deleteCustomers" /\ last.pc = "returned"
    /\ last.trace = <<[call |-> "sql", stmt |-> "SELECT COUNT invoices", ok |-> TRUE],
                      [call |-> "sql", stmt |-> "DELETE customers", ok |-> FALSE]>>

-----------------------------------------------------------------------------
\* A step of an invocation of `op`: it starts, goes on or ends.
StepOf(op) ==
    \/ Ending /\ last'.op = op
    \/ \E p \in Procs : procs'[p] # procs[p] /\ (procs[p].op = op \/ procs'[p].op = op)

\* C18: no step of deleteCustomers changes the invoices table, whatever its
\* outcome.  A count that finds no pending invoice of the customer goes on to
\* the DELETE, and the DELETE that succeeds removes the customer and leaves
\* every invoice of that customer in the store, with its customer_id.
C18_DeleteCustomersKeepsInvoices ==
    [][StepOf("deleteCustomers")
          => /\ invoices' = invoices
             /\ nextInvoice' = nextInvoice
             /\ \A p \in Procs :
                    /\ (procs[p].pc = "count" /\ procs'[p].pc = "idle"
                          /\ FailedSql(last'.trace) = {})
                           => HasPending(invoices, procs[p].id)
                    /\ (procs[p].pc = "delete" /\ procs'[p].pc = "idle"
                          /\ FailedSql(last'.trace) = {})
                           => /\ last'.result.message = DeletedMessage
                              /\ procs[p].id \notin DOMAIN customers'
                              /\ \A i \in DOMAIN invoices :
                                     invoices[i].customer_id = procs[p].id
                                         => /\ i \in DOMAIN invoices'
                                            /\ invoices'[i].customer_id = procs[p].id]_vars

\* Customer c1, whose one invoice is paid, has been deleted; the invoice is
\* in the store and names c1.
C18_Witness ==
    /\ last.op = "deleteCustomers" /\ last.id = "c1"
    /\ last.result = [message |-> DeletedMessage]
    /\ "c1" \notin DOMAIN customers
    /\ "i2" \in DOMAIN invoices
    /\ invoices["i2"].customer_id = "c1" /\ invoices["i2"].status = "paid"

\* C19: a step of updateInvoice(id, ...) changes at most customer_id, amount
\* and status of the row id: the ids of the rows, the date of that row, every
\* other row, the number of rows and the customers table stay as they were.
\* When no row has the id and the store accepts the UPDATE, the store stays as
\* it was and the action invalidates /dashboard/invoices and redirects there.
C19_UpdateInvoiceFrame ==
    [][StepOf("updateInvoice")
          => /\ DOMAIN invoices' = DOMAIN invoices
             /\ \A i \in DOMAIN invoices :
                    /\ invoices'[i].date = invoices[i].date
                    /\ (Ending /\ i # last'.id) => invoices'[i] = invoices[i]
                    /\ ~Ending => invoices'[i] = invoices[i]
             /\ customers' = customers
             /\ nextInvoice' = nextInvoice /\ nextCustomer' = nextCustomer
             /\ (Ending /\ last'.id \notin DOMAIN invoices
                   /\ last'.trace # <<>> /\ FailedSql(last'.trace) = {})
                    => /\ invoices' = invoices
                       /\ last'.pc = "redirected"
                       /\ last'.trace = <<[call |-> "sql", stmt |-> "UPDATE invoices", ok |-> TRUE],
                                          [call |-> "revalidatePath", path |-> "/dashboard/invoices"],
                                          [call |-> "redirect", path |-> "/dashboard/invoices"]>>]_vars

\* updateInvoice of an id no row has: redirected, the invoices as they were.
C19_Witness ==
    /\ last.op = "updateInvoice" /\ last.id = "i3" /\ last.pc = "redirected"
    /\ calls = 1
    /\ DOMAIN invoices = {"i1", "i2"}
    /\ invoices["i1"] = [customer_id |-> "c2", amount |-> 100, status |-> "pending", date |-> 0]
    /\ invoices["i2"] = [customer_id |-> "c1", amount |-> 300, status |-> "paid", date |-> 0]

====
